---------------------------- MODULE Spec2Model ----------------------------
(***************************************************************************)
(* Model of the rank-fusion engine (class Fusion: borda, dbsf, rrf, rsf)   *)
(* and of the NDCG evaluator (ndcg) of hybrid-js.                          *)
(*                                                                         *)
(* JavaScript numbers are modelled by integers in a unit fixed per         *)
(* computation (stated at each operator) together with a NaN flag; the     *)
(* rounding of IEEE doubles is not modelled.                               *)
(***************************************************************************)
EXTENDS Integers, Sequences, FiniteSets, TLC

(***************************************************************************)
(* Bounds of the model.                                                    *)
(***************************************************************************)
MaxIds == 3
MaxSignals == 2
MaxEntries == 6
MaxRank == 5

(***************************************************************************)
(* Generic helpers.                                                        *)
(***************************************************************************)
Range(s) == {s[i] : i \in 1..Len(s)}

IndexOf(s, x) == CHOOSE i \in 1..Len(s) : s[i] = x

Abs(x) == IF x < 0 THEN -x ELSE x

RECURSIVE SumSeq(_)
SumSeq(s) == IF s = <<>> THEN 0 ELSE s[1] + SumSeq(Tail(s))

RECURSIVE ProdSeq(_)
ProdSeq(s) == IF s = <<>> THEN 1 ELSE s[1] * ProdSeq(Tail(s))

\* Quotient rounded toward zero, d > 0.
Quot(a, d) == IF a >= 0 THEN a \div d ELSE -((-a) \div d)

(***************************************************************************)
(* JavaScript numbers: a value v in the unit of the computation, or NaN.   *)
(***************************************************************************)
Num(v) == [nan |-> FALSE, v |-> v]
NaN == [nan |-> TRUE, v |-> 0]

\* a + b
NumAdd(a, b) == IF a.nan \/ b.nan THEN NaN ELSE Num(a.v + b.v)

\* The sign of a - b; a comparator that yields NaN counts as 0 (SortCompare).
NumSubSign(a, b) ==
    IF a.nan \/ b.nan THEN 0
    ELSE IF a.v > b.v THEN 1 ELSE IF a.v < b.v THEN -1 ELSE 0

(***************************************************************************)
(* Array.prototype.sort(comparefn): a stable sort. comparefn(a, b) < 0     *)
(* puts a before b; elements that compare 0 keep their relative order.     *)
(* compared[j][i] is comparefn(arr[j], arr[i]).                            *)
(***************************************************************************)
ArraySort(arr, compared) ==
    LET n == Len(arr)
        place(i) == 1 + Cardinality({j \in 1..n :
                        \/ compared[j][i] < 0
                        \/ compared[j][i] = 0 /\ j < i})
    IN [p \in 1..n |-> arr[CHOOSE i \in 1..n : place(i) = p]]

(***************************************************************************)
(* Identifiers. Property keys that are canonical array indices ("2", "10") *)
(* are enumerated by Object.entries before all other keys, in ascending    *)
(* numeric order; the other keys follow in insertion order.                *)
(***************************************************************************)
IdsLex == <<"10", "2", "P1", "P2", "P3", "P4", "P5", "X">>

\* Lexical (code unit) order of two ids.
LexLess(a, b) == IndexOf(IdsLex, a) < IndexOf(IdsLex, b)

ArrayIndexKeys == {"2", "10"}

ArrayIndexValue(id) == IF id = "2" THEN 2 ELSE IF id = "10" THEN 10 ELSE -1

IdPools == {<<"P1", "P2", "P3", "P4", "P5">>, <<"P1", "10", "2", "P2", "P3">>}

ForeignId == "X"

(***************************************************************************)
(* class Score                                                             *)
(***************************************************************************)
Score(id, score, rank) == [id |-> id, score |-> score, rank |-> rank]

(***************************************************************************)
(* An assocArrayNum object: its keys in insertion order and their values.  *)
(***************************************************************************)
EmptyObj == [keys |-> <<>>, val |-> <<>>]

HasKey(obj, key) == key \in Range(obj.keys)

\* obj[key] = value
ObjSet(obj, key, value) ==
    IF HasKey(obj, key)
    THEN [obj EXCEPT !.val[IndexOf(obj.keys, key)] = value]
    ELSE [keys |-> Append(obj.keys, key), val |-> Append(obj.val, value)]

\* obj[key]; a missing property reads as undefined, which is NaN in arithmetic
ObjGet(obj, key) == IF HasKey(obj, key) THEN obj.val[IndexOf(obj.keys, key)] ELSE NaN

\* obj[key] += value written as a push of a new entry
ObjAddAsPush(obj, key, value) ==
    [keys |-> Append(obj.keys, key), val |-> Append(obj.val, value)]

\* obj[key] += value
ObjAdd(obj, key, value) == ObjSet(obj, key, NumAdd(ObjGet(obj, key), value))

\* Object.entries(obj): <<key, value>> pairs in property enumeration order
ObjectEntries(obj) ==
    LET n == Len(obj.keys)
        isIdx(i) == obj.keys[i] \in ArrayIndexKeys
        before(j, i) ==
            \/ isIdx(j) /\ ~isIdx(i)
            \/ isIdx(j) /\ isIdx(i) /\ ArrayIndexValue(obj.keys[j]) < ArrayIndexValue(obj.keys[i])
            \/ isIdx(j) /\ isIdx(i) /\ obj.keys[j] = obj.keys[i] /\ j < i
            \/ ~isIdx(j) /\ ~isIdx(i) /\ j < i
        place(i) == 1 + Cardinality({j \in 1..n : before(j, i)})
    IN [p \in 1..n |-> LET i == CHOOSE i \in 1..n : place(i) = p
                       IN <<obj.keys[i], obj.val[i]>>]

\* The sort with the id as a second key: (a,b) => b[1] - a[1] || a[0].localeCompare(b[0])
EntriesByValueThenId(obj) ==
    LET entries == ObjectEntries(obj)
        cmp(a, b) ==
            IF NumSubSign(b[2], a[2]) # 0 THEN NumSubSign(b[2], a[2])
            ELSE IF LexLess(a[1], b[1]) THEN -1 ELSE IF LexLess(b[1], a[1]) THEN 1 ELSE 0
    IN ArraySort(entries, [i \in 1..Len(entries) |->
                              [j \in 1..Len(entries) |-> cmp(entries[i], entries[j])]])

\* The sort after the NaN entries are left out:
\* Object.entries(obj).filter((e) => !isNaN(e[1])).sort((a,b) => b[1] - a[1])
EntriesFiniteByValueDesc(obj) ==
    LET all == ObjectEntries(obj)
        kept == {i \in 1..Len(all) : ~all[i][2].nan}
        entries == [p \in 1..Cardinality(kept) |->
                       all[CHOOSE i \in kept : Cardinality({j \in kept : j < i}) = p - 1]]
        cmp(a, b) == NumSubSign(b[2], a[2])
    IN ArraySort(entries, [i \in 1..Len(entries) |->
                              [j \in 1..Len(entries) |-> cmp(entries[i], entries[j])]])

\* Object.entries(obj).sort((a,b) => b[1] - a[1])
EntriesByValueDesc(obj) ==
    LET entries == ObjectEntries(obj)
        cmp(a, b) == NumSubSign(b[2], a[2])
    IN ArraySort(entries, [i \in 1..Len(entries) |->
                              [j \in 1..Len(entries) |-> cmp(entries[i], entries[j])]])

\* sorted.map((elm) => elm[0])
EntryKeys(entries) == [i \in 1..Len(entries) |-> entries[i][1]]


RECURSIVE ISqrtBetween(_, _, _)
ISqrtBetween(n, lo, hi) ==
    IF lo >= hi THEN lo
    ELSE LET mid == (lo + hi + 1) \div 2
         IN IF mid * mid <= n THEN ISqrtBetween(n, mid, hi) ELSE ISqrtBetween(n, lo, mid - 1)

ISqrt(n) == ISqrtBetween(n, 0, 46340)

(***************************************************************************)
(* class Fusion: the constructor and #validateInput.                       *)
(* The result is the outcome of `new Fusion(scores, weights)`: whether it  *)
(* threw, the score arrays as the in-place sorts left them, and the        *)
(* rankings.                                                               *)
(***************************************************************************)
\* The comparator on the scores halved and truncated: (b.score >> 1) - (a.score >> 1)
ByScoreDescHalved(a, b) == Quot(b.score, 2) - Quot(a.score, 2)

\* (a,b) => b.score - a.score
ByScoreDesc(a, b) == b.score - a.score

\* scoreArr.sort((a,b) => b.score - a.score)
SortScores(scoreArr) ==
    ArraySort(scoreArr, [i \in 1..Len(scoreArr) |->
                            [j \in 1..Len(scoreArr) |-> ByScoreDesc(scoreArr[i], scoreArr[j])]])

\* .map((elm) => elm.id)
IdsOf(scoreArr) == [i \in 1..Len(scoreArr) |-> scoreArr[i].id]

\* The size check against the first array's length instead of the id set's size
RECURSIVE ValidateFromByLength(_, _, _, _)
ValidateFromByLength(scoresNow, ids, i, rankingsNow) ==
    IF i > Len(scoresNow)
    THEN [threw |-> FALSE, error |-> "none", scores |-> scoresNow, rankings |-> rankingsNow]
    ELSE IF Len(scoresNow[1]) # Len(scoresNow[i])
    THEN [threw |-> TRUE, error |-> "AssertionError", scores |-> scoresNow, rankings |-> <<>>]
    ELSE LET sortedArr == SortScores(scoresNow[i])
             sorted == [j \in 1..Len(sortedArr) |-> sortedArr[j].id]
             scoresNext == [scoresNow EXCEPT ![i] = sortedArr]
         IN IF \E id \in ids : id \notin Range(sorted)
            THEN [threw |-> TRUE, error |-> "AssertionError", scores |-> scoresNext,
                  rankings |-> <<>>]
            ELSE ValidateFromByLength(scoresNext, ids, i + 1, Append(rankingsNow, sorted))

\* The body of this.scores.forEach in #validateInput, from score array i on.
RECURSIVE ValidateFrom(_, _, _, _)
ValidateFrom(scoresNow, ids, i, rankingsNow) ==
    IF i > Len(scoresNow)
    THEN [threw |-> FALSE, error |-> "none", scores |-> scoresNow, rankings |-> rankingsNow]
    ELSE IF Cardinality(ids) # Len(scoresNow[i])
    THEN [threw |-> TRUE, error |-> "AssertionError", scores |-> scoresNow, rankings |-> <<>>]
    ELSE LET sortedArr == SortScores(scoresNow[i])
             sorted == IdsOf(sortedArr)
             scoresNext == [scoresNow EXCEPT ![i] = sortedArr]
         IN IF \E id \in ids : id \notin Range(sorted)
            THEN [threw |-> TRUE, error |-> "AssertionError", scores |-> scoresNext,
                  rankings |-> <<>>]
            ELSE ValidateFrom(scoresNext, ids, i + 1, Append(rankingsNow, sorted))

validateInput(scoresArg, weightsArg) ==
    IF Len(scoresArg) # Len(weightsArg)
    THEN [threw |-> TRUE, error |-> "AssertionError", scores |-> scoresArg, rankings |-> <<>>]
    ELSE IF Len(scoresArg) = 0
    THEN [threw |-> TRUE, error |-> "TypeError", scores |-> scoresArg, rankings |-> <<>>]
    ELSE ValidateFrom(scoresArg, Range(IdsOf(scoresArg[1])), 1, <<>>)

(***************************************************************************)
(* The four fusion methods, as functions of the fields of a constructed    *)
(* Fusion. Each yields the final score object; the returned ordering is    *)
(* EntryKeys(EntriesByValueDesc(object)).                                  *)
(***************************************************************************)
\* arr.forEach((elm) => obj[key(elm)] = 0)
ZeroAll(keys) ==
    LET setZero(obj, elm, j) == ObjSet(obj, elm, Num(0))
        done[n \in 0..Len(keys)] ==
            IF n = 0 THEN EmptyObj ELSE setZero(done[n - 1], keys[n], n)
    IN done[Len(keys)]

\* borda awarding the index j instead of rankArr.length - j
bordaScoresByIndex(rankingsF, weightsF) ==
    LET perSignal(obj, rankArr, i) ==
            LET add(o, rank, j) == ObjAdd(o, rank, Num(weightsF[i] * (j - 1)))
                added[n \in 0..Len(rankArr)] ==
                    IF n = 0 THEN obj ELSE add(added[n - 1], rankArr[n], n)
            IN added[Len(rankArr)]
        fused[n \in 0..Len(rankingsF)] ==
            IF n = 0 THEN ZeroAll(rankingsF[1]) ELSE perSignal(fused[n - 1], rankingsF[n], n)
    IN fused[Len(rankingsF)]

\* borda: values in unit 1
bordaScores(rankingsF, weightsF) ==
    LET perSignal(obj, rankArr, i) ==
            LET add(o, rank, j) == ObjAdd(o, rank, Num(weightsF[i] * (Len(rankArr) - (j - 1))))
                added[n \in 0..Len(rankArr)] ==
                    IF n = 0 THEN obj ELSE add(added[n - 1], rankArr[n], n)
            IN added[Len(rankArr)]
        fused[n \in 0..Len(rankingsF)] ==
            IF n = 0 THEN ZeroAll(rankingsF[1]) ELSE perSignal(fused[n - 1], rankingsF[n], n)
    IN fused[Len(rankingsF)]

borda(rankingsF, weightsF) == EntryKeys(EntriesByValueDesc(bordaScores(rankingsF, weightsF)))

\* rrf: values in unit 1/RrfUnit, the product of the denominators j + k that occur
RrfUnit(rankingsF, k) == ProdSeq([j \in 1..Len(rankingsF[1]) |-> (j - 1) + k])

\* rrf without the weights
rrfScoresUnweighted(rankingsF, weightsF, k) ==
    LET unit == RrfUnit(rankingsF, k)
        perSignal(obj, ranking, i) ==
            LET add(o, elm, j) == ObjAdd(o, elm, Num(unit \div ((j - 1) + k)))
                added[n \in 0..Len(ranking)] ==
                    IF n = 0 THEN obj ELSE add(added[n - 1], ranking[n], n)
            IN added[Len(ranking)]
        fused[n \in 0..Len(rankingsF)] ==
            IF n = 0 THEN ZeroAll(rankingsF[1]) ELSE perSignal(fused[n - 1], rankingsF[n], n)
    IN fused[Len(rankingsF)]

\* rrf with every weight above 2 counted as 2: Math.min(this.weights[i], 2)
rrfScoresCapped(rankingsF, weightsF, k) ==
    LET unit == RrfUnit(rankingsF, k)
        capped(w) == IF w > 2 THEN 2 ELSE w
        perSignal(obj, ranking, i) ==
            LET add(o, elm, j) == ObjAdd(o, elm, Num(capped(weightsF[i]) * (unit \div ((j - 1) + k))))
                added[n \in 0..Len(ranking)] ==
                    IF n = 0 THEN obj ELSE add(added[n - 1], ranking[n], n)
            IN added[Len(ranking)]
        fused[n \in 0..Len(rankingsF)] ==
            IF n = 0 THEN ZeroAll(rankingsF[1]) ELSE perSignal(fused[n - 1], rankingsF[n], n)
    IN fused[Len(rankingsF)]

rrfScores(rankingsF, weightsF, k) ==
    LET unit == RrfUnit(rankingsF, k)
        perSignal(obj, ranking, i) ==
            LET add(o, elm, j) == ObjAdd(o, elm, Num(weightsF[i] * (unit \div ((j - 1) + k))))
                added[n \in 0..Len(ranking)] ==
                    IF n = 0 THEN obj ELSE add(added[n - 1], ranking[n], n)
            IN added[Len(ranking)]
        fused[n \in 0..Len(rankingsF)] ==
            IF n = 0 THEN ZeroAll(rankingsF[1]) ELSE perSignal(fused[n - 1], rankingsF[n], n)
    IN fused[Len(rankingsF)]

rrf(rankingsF, weightsF, k) == EntryKeys(EntriesByValueDesc(rrfScores(rankingsF, weightsF, k)))

\* The maximum with its comparison turned around: a < b.score ? a : b.score
maxScoreTurned(scoreArr) ==
    LET pick(a, b, j) == IF ~a.inf /\ a.v < b.score THEN a ELSE [inf |-> FALSE, v |-> b.score]
        picked[n \in 0..Len(scoreArr)] ==
            IF n = 0 THEN [inf |-> TRUE, v |-> 0] ELSE pick(picked[n - 1], scoreArr[n], n)
    IN picked[Len(scoreArr)]

\* scoreArr.reduce((a,b) => a > b.score ? a : b.score, Number.NEGATIVE_INFINITY)
\* and its mirror image for the minimum; inf marks the infinite start value.
maxScore(scoreArr) ==
    LET pick(a, b, j) == IF ~a.inf /\ a.v > b.score THEN a ELSE [inf |-> FALSE, v |-> b.score]
        picked[n \in 0..Len(scoreArr)] ==
            IF n = 0 THEN [inf |-> TRUE, v |-> 0] ELSE pick(picked[n - 1], scoreArr[n], n)
    IN picked[Len(scoreArr)]

minScore(scoreArr) ==
    LET pick(a, b, j) == IF ~a.inf /\ a.v < b.score THEN a ELSE [inf |-> FALSE, v |-> b.score]
        picked[n \in 0..Len(scoreArr)] ==
            IF n = 0 THEN [inf |-> TRUE, v |-> 0] ELSE pick(picked[n - 1], scoreArr[n], n)
    IN picked[Len(scoreArr)]

\* max - min of one score array (0 for an empty one, whose value is never used)
ScoreRange(scoreArr) ==
    IF Len(scoreArr) = 0 THEN 0 ELSE maxScore(scoreArr).v - minScore(scoreArr).v

\* rsf: values in unit 1/RsfUnit, the product of the non-zero ranges max - min
RsfUnit(scoresF) ==
    ProdSeq([i \in 1..Len(scoresF) |->
                IF ScoreRange(scoresF[i]) = 0 THEN 1 ELSE ScoreRange(scoresF[i])])

\* normalize = (val - min) / (max - min); 0/0 is NaN
normalize(val, max, min, unit) ==
    IF max - min = 0 THEN NaN ELSE Num((val - min) * (unit \div (max - min)))

\* weights[i] * x
NumTimes(w, x) == IF x.nan THEN NaN ELSE Num(w * x.v)

rsfScores(scoresF, weightsF) ==
    LET unit == RsfUnit(scoresF)
        zero(obj, elm, j) == ObjSet(obj, elm.id, Num(0))
        perSignal(obj, scoreArr, i) ==
            LET max == maxScore(scoreArr).v
                min == minScore(scoreArr).v
                add(o, elm, j) ==
                    ObjAdd(o, elm.id, NumTimes(weightsF[i], normalize(elm.score, max, min, unit)))
                added[n \in 0..Len(scoreArr)] ==
                    IF n = 0 THEN obj ELSE add(added[n - 1], scoreArr[n], n)
            IN added[Len(scoreArr)]
        zeroed[n \in 0..Len(scoresF[1])] ==
            IF n = 0 THEN EmptyObj ELSE zero(zeroed[n - 1], scoresF[1][n], n)
        fused[n \in 0..Len(scoresF)] ==
            IF n = 0 THEN zeroed[Len(scoresF[1])] ELSE perSignal(fused[n - 1], scoresF[n], n)
    IN fused[Len(scoresF)]

rsf(scoresF, weightsF) == EntryKeys(EntriesByValueDesc(rsfScores(scoresF, weightsF)))

\* dbsf: z-scores in unit 1/ZUnit, rounded toward zero
ZUnit == 10 ^ 4

\* Decimal digits kept by the square root of v, so that v * scale^2 stays in range
SqrtScale(v) ==
    IF v <= 20 THEN 10 ^ 4
    ELSE IF v <= 2000 THEN 10 ^ 3
    ELSE IF v <= 200000 THEN 10 ^ 2
    ELSE IF v <= 20000000 THEN 10 ELSE 1

\* mean of one score array, in unit 1/L (L its length):
\* scoreArr.reduce((a, b) => a + b.score/scoreArr.length, 0)
meanTimesLen(scoreArr) ==
    LET add(a, b, j) == a + b.score
        sum[n \in 0..Len(scoreArr)] == IF n = 0 THEN 0 ELSE add(sum[n - 1], scoreArr[n], n)
    IN sum[Len(scoreArr)]

\* (L * std)^2 for one score array of length L > 0:
\* scoreArr.reduce((a, b) => a + Math.pow(b.score - mean, 2), 0)/scoreArr.length
varTimesLenSq(scoreArr) ==
    LET len == Len(scoreArr)
        mean == meanTimesLen(scoreArr)
        add(a, b, j) == a + (len * b.score - mean) * (len * b.score - mean)
        sum[n \in 0..Len(scoreArr)] == IF n = 0 THEN 0 ELSE add(sum[n - 1], scoreArr[n], n)
    IN sum[Len(scoreArr)] \div len

\* std of one score array of length L > 0, in unit 1/(L * scale):
\* Math.sqrt(.../scoreArr.length)
stdTimesLen(scoreArr) ==
    LET v == varTimesLenSq(scoreArr)
        q == SqrtScale(v)
    IN [scale |-> q, root |-> ISqrt(v * q * q)]

\* zscore without the division by std: val - mean
zscoreNoStd(valL, meanL, std) ==
    IF std.root = 0 THEN NaN ELSE Num((valL - meanL) * ZUnit)

\* zscore = (val - mean) / std, with val and mean in unit 1/L; 0/0 is NaN
zscore(valL, meanL, std) ==
    IF std.root = 0 THEN NaN
    ELSE Num(Quot((valL - meanL) * std.scale * ZUnit, std.root))

dbsfScores(scoresF, weightsF) ==
    LET zero(obj, elm, j) == ObjSet(obj, elm.id, Num(0))
        perSignal(obj, scoreArr, i) ==
            LET len == Len(scoreArr)
                mean == meanTimesLen(scoreArr)
                std == stdTimesLen(scoreArr)
                add(o, elm, j) ==
                    ObjAdd(o, elm.id, NumTimes(weightsF[i], zscore(len * elm.score, mean, std)))
                added[n \in 0..Len(scoreArr)] ==
                    IF n = 0 THEN obj ELSE add(added[n - 1], scoreArr[n], n)
            IN added[Len(scoreArr)]
        zeroed[n \in 0..Len(scoresF[1])] ==
            IF n = 0 THEN EmptyObj ELSE zero(zeroed[n - 1], scoresF[1][n], n)
        fused[n \in 0..Len(scoresF)] ==
            IF n = 0 THEN zeroed[Len(scoresF[1])] ELSE perSignal(fused[n - 1], scoresF[n], n)
    IN fused[Len(scoresF)]

dbsf(scoresF, weightsF) == EntryKeys(EntriesByValueDesc(dbsfScores(scoresF, weightsF)))

(***************************************************************************)
(* ndcg (app.ts). DCG and IDCG are in unit 1/1000, each term rounded       *)
(* toward zero; the reported ndcg is in unit 1/10000 (toFixed(4)), or one  *)
(* of the non-numeric results of a division by zero.                       *)
(***************************************************************************)
\* Math.log2(n) in unit 1/10000, n in 1..10
Log2E4 == <<0, 10000, 15850, 20000, 23219, 25850, 28074, 30000, 31699, 33219>>

\* (acc, elm, index) => acc + (Math.pow(elm.relevance, 2) - 1) / Math.log2(index + 2)
calcDCG(acc, elm, j) ==
    acc + Quot((elm.relevance * elm.relevance - 1) * 10 ^ 7, Log2E4[(j - 1) + 2])

\* {pid: result.id, relevance: scores.length - result.rank + 1} for each result
predictedOf(searchResult) ==
    [i \in 1..Len(searchResult.scores) |->
        [pid |-> searchResult.scores[i].id,
         relevance |-> Len(searchResult.scores) - searchResult.scores[i].rank + 1]]

\* (a,b) => b.relevance - a.relevance
ByRelevanceDesc(a, b) == b.relevance - a.relevance

\* [...predicted].sort((a,b) => b.relevance - a.relevance)
groundTruthOf(predicted) ==
    ArraySort(predicted, [i \in 1..Len(predicted) |->
                             [j \in 1..Len(predicted) |->
                                 ByRelevanceDesc(predicted[i], predicted[j])]])

\* arr.reduce(calcDCG, 0)
ReduceDCG(arr) ==
    LET acc[n \in 0..Len(arr)] == IF n = 0 THEN 0 ELSE calcDCG(acc[n - 1], arr[n], n)
    IN acc[Len(arr)]

dcgOf(searchResult) == ReduceDCG(predictedOf(searchResult))

idcgOf(searchResult) == ReduceDCG(groundTruthOf(predictedOf(searchResult)))

\* parseFloat((dcg/idcg).toFixed(4))
ToFixed4(dcg, idcg) ==
    IF idcg = 0
    THEN IF dcg = 0 THEN [kind |-> "NaN", v |-> 0]
         ELSE IF dcg > 0 THEN [kind |-> "Infinity", v |-> 0]
         ELSE [kind |-> "-Infinity", v |-> 0]
    ELSE LET mag == (2 * Abs(dcg) * 10 ^ 4 + Abs(idcg)) \div (2 * Abs(idcg))
         IN [kind |-> "number", v |-> IF (dcg < 0) = (idcg < 0) THEN mag ELSE -mag]

ndcg(searchResultsArg) ==
    [q \in 1..Len(searchResultsArg) |->
        [qid |-> searchResultsArg[q].qid,
         ndcg |-> ToFixed4(dcgOf(searchResultsArg[q]), idcgOf(searchResultsArg[q]))]]

(***************************************************************************)
(* formatFused (app.ts). The returned array may have holes: outArr[i] is   *)
(* assigned only for a matched id, and an assignment at index i makes the  *)
(* length i + 1. A slot of the array is a record or the hole.              *)
(***************************************************************************)
Hole == [hole |-> TRUE, id |-> "", score |-> 0, rank |-> 0]

\* formatFused with the index for the counter j: score: i
formatFusedByIndex(inArr, orig) ==
    LET find(i) == {m \in 1..Len(orig) : orig[m].id = inArr[i]}
        matched == {i \in 1..Len(inArr) : find(i) # {}}
        length == IF matched = {} THEN 0 ELSE CHOOSE i \in matched : \A x \in matched : x <= i
    IN [i \in 1..length |->
           IF i \in matched
           THEN [hole |-> FALSE, id |-> inArr[i], score |-> i - 1,
                 rank |-> orig[CHOOSE m \in find(i) : \A x \in find(i) : m <= x].rank]
           ELSE Hole]

\* formatFused(inArr, orig): orig.find yields the first entry with the id; j
\* counts down from inArr.length, so that index i (from 1 here) gets
\* inArr.length - (i - 1)
formatFused(inArr, orig) ==
    LET find(i) == {m \in 1..Len(orig) : orig[m].id = inArr[i]}
        matched == {i \in 1..Len(inArr) : find(i) # {}}
        length == IF matched = {} THEN 0 ELSE CHOOSE i \in matched : \A x \in matched : x <= i
    IN [i \in 1..length |->
           IF i \in matched
           THEN [hole |-> FALSE, id |-> inArr[i], score |-> Len(inArr) - (i - 1),
                 rank |-> orig[CHOOSE m \in find(i) : \A x \in find(i) : m <= x].rank]
           ELSE Hole]

(***************************************************************************)
(* Inputs.                                                                 *)
(***************************************************************************)
ScoreValues == {0, 1, 3}
WeightValues == {1, 2}
KValues == {-1, 0, 1, 60}

\* The argument lists of a call of rrf: none, or a value of k
KArgs == {<<>>} \cup {<<k>> : k \in KValues}
Names == <<"P1", "P2", "P3", "P4", "P5">>

Reverse(s) == [i \in 1..Len(s) |-> s[Len(s) + 1 - i]]

\* The orders in which the rows of n ids arrive: the first n ids of a pool,
\* forward or backward
RowOrders(pool, n) == {SubSeq(pool, 1, n), Reverse(SubSeq(pool, 1, n))}

Shapes == {sh \in (0..MaxIds) \X (1..MaxSignals) : sh[1] * sh[2] <= MaxEntries}

\* An input without a defect, built as search() builds them: one row per id,
\* pushed to every score array in the same order; one weight per score array
ValidInput(rows, sc, ws) ==
    [scores |-> [s \in 1..Len(ws) |-> [i \in 1..Len(rows) |-> Score(rows[i], sc[s][i], 0)]],
     weights |-> ws]

\* A score array with the given ids, scored ascending (the sort reverses it)
Ascending(idSeq) == [i \in 1..Len(idSeq) |-> Score(idSeq[i], i, 0)]

\* The lengths of the score arrays of an input of any shape
AnyLengths ==
    UNION {{lens \in [1..s -> 0..MaxIds] : SumSeq(lens) <= MaxEntries - 2} : s \in 0..MaxSignals}

\* An input of any shape: ids missing, foreign or repeated, arrays of different
\* lengths, a weight too many or too few. flat holds the ids of all the arrays,
\* one array after the other; there are w weights.
AnyShapeInput(lens, flat, w) ==
    [scores |-> [i \in 1..Len(lens) |->
                    Ascending(SubSeq(flat, SumSeq(SubSeq(lens, 1, i - 1)) + 1,
                                     SumSeq(SubSeq(lens, 1, i))))],
     weights |-> [i \in 1..w |-> 1]]

\* The two-signal, five-id input of tests/fusion.test.js, in units of 1/10000
ReferenceInput ==
    [scores |-> << <<Score("P1", 1874, 0), Score("P2", 1241, 0), Score("P3", 810, 0),
                     Score("P4", 2077, 0), Score("P5", 597, 0)>>,
                   <<Score("P1", 6761, 0), Score("P2", 6549, 0), Score("P3", 7479, 0),
                     Score("P4", 6304, 0), Score("P5", 6868, 0)>> >>,
     weights |-> <<1, 1>>]

\* Ranked scores of one query as formatFused lays them out: score N - i at index i
RankedLists ==
    UNION {{[i \in 1..n |-> [id |-> Names[i], score |-> n - (i - 1), rank |-> rk[i]]] :
               rk \in [1..n -> 0..MaxRank]} : n \in 0..MaxIds}

\* One query, or two queries holding the same entries, the second in the same
\* or in the reverse order
NdcgInputs ==
    {<<[qid |-> "q1", scores |-> l]>> : l \in RankedLists}
    \cup {<<[qid |-> "q1", scores |-> l[1]], [qid |-> "q2", scores |-> l[2]]>> :
             l \in UNION {{<<r, r>>, <<r, Reverse(r)>>} : r \in RankedLists}}

\* The arguments of formatFused: a fused ordering over ids of which one is not
\* in the reference list, and a reference list of distinct ids with their ranks
FormatArgs ==
    UNION {{[inArr |-> inArr, orig |-> [i \in 1..n |-> [id |-> ids[i], score |-> 0, rank |-> rk[i]]]] :
               inArr \in UNION {[1..len -> {"P1", "P2", ForeignId}] : len \in 0..MaxIds},
               ids \in {s \in [1..n -> {"P1", "P2"}] : \A a, b \in 1..n : s[a] = s[b] => a = b},
               rk \in [1..n -> 0..MaxRank]} : n \in 0..2}

NoFormat == [inArr |-> <<>>, orig |-> <<>>]

(***************************************************************************)
(* The state machine.                                                      *)
(***************************************************************************)
VARIABLES
    pc,             \* "new", "ready", "returned", "threw": the Fusion and its caller;
                    \* "eval", "evaluated": the caller of ndcg;
                    \* "format", "formatted": the caller of formatFused
    given,          \* the arguments of new Fusion as the caller built them
    scores,         \* the score arrays (the caller's arrays and this.scores are the same objects)
    weights,        \* this.weights
    rankings,       \* this.rankings
    error,          \* what the constructor threw
    call,           \* the fusion method just called, its arguments (k as the method
                    \* sees it) and what it returned
    searchResults,  \* the argument of ndcg
    metrics,        \* what ndcg returned
    called,         \* whether a call of a fusion method on the Fusion has returned or
                    \* thrown before the current one
    formatArgs,     \* the arguments of formatFused
    formatted       \* what formatFused returned

vars == <<pc, given, scores, weights, rankings, error, call, called, searchResults, metrics,
          formatArgs, formatted>>

NoCall == [method |-> "none", args |-> <<>>, k |-> 0, threw |-> FALSE, value |-> <<>>]

InitFusion(input) ==
    /\ pc = "new"
    /\ given = input
    /\ scores = input.scores
    /\ weights = input.weights
    /\ rankings = <<>>
    /\ error = "none"
    /\ call = NoCall
    /\ called = FALSE
    /\ searchResults = <<>>
    /\ metrics = <<>>
    /\ formatArgs = NoFormat
    /\ formatted = <<>>

InitNdcg(results) ==
    /\ pc = "eval"
    /\ given = [scores |-> <<>>, weights |-> <<>>]
    /\ scores = <<>>
    /\ weights = <<>>
    /\ rankings = <<>>
    /\ error = "none"
    /\ call = NoCall
    /\ called = FALSE
    /\ searchResults = results
    /\ metrics = <<>>
    /\ formatArgs = NoFormat
    /\ formatted = <<>>

InitFormat(args) ==
    /\ pc = "format"
    /\ given = [scores |-> <<>>, weights |-> <<>>]
    /\ scores = <<>>
    /\ weights = <<>>
    /\ rankings = <<>>
    /\ error = "none"
    /\ call = NoCall
    /\ called = FALSE
    /\ searchResults = <<>>
    /\ metrics = <<>>
    /\ formatArgs = args
    /\ formatted = <<>>

Init ==
    \/ \E pool \in IdPools, sh \in Shapes :
          \E rows \in RowOrders(pool, sh[1]), sc \in [1..sh[2] -> [1..sh[1] -> ScoreValues]],
             ws \in [1..sh[2] -> WeightValues] : InitFusion(ValidInput(rows, sc, ws))
    \/ \E lens \in AnyLengths :
          \E flat \in [1..SumSeq(lens) -> {"P1", "P2", ForeignId}],
             w \in {x \in {Len(lens) - 1, Len(lens), Len(lens) + 1} : x >= 0} :
                InitFusion(AnyShapeInput(lens, flat, w))
    \/ InitFusion(ReferenceInput)
    \/ \E results \in NdcgInputs : InitNdcg(results)
    \/ \E args \in FormatArgs : InitFormat(args)

\* new Fusion(scores, weights)
NewFusion ==
    /\ pc = "new"
    /\ LET r == validateInput(scores, weights)
       IN /\ scores' = r.scores
          /\ rankings' = r.rankings
          /\ error' = r.error
          /\ pc' = IF r.threw THEN "threw" ELSE "ready"
    /\ UNCHANGED <<given, weights, call, called, searchResults, metrics, formatArgs, formatted>>

\* A call of a fusion method on the constructed Fusion: what it returns or throws
\* Returns with the method sorting the cached rankings of the first signal the
\* other way round before it returns
ReturnsTurningRankings(method, args, k, value) ==
    /\ pc = "ready"
    /\ pc' = "returned"
    /\ call' = [method |-> method, args |-> args, k |-> k, threw |-> FALSE, value |-> value]
    /\ rankings' = [rankings EXCEPT ![1] = Reverse(rankings[1])]
    /\ UNCHANGED <<given, scores, weights, error, called, searchResults, metrics, formatArgs, formatted>>

Returns(method, args, k, value) ==
    /\ pc = "ready"
    /\ pc' = "returned"
    /\ call' = [method |-> method, args |-> args, k |-> k, threw |-> FALSE, value |-> value]
    /\ UNCHANGED <<given, scores, weights, rankings, error, called, searchResults, metrics, formatArgs, formatted>>

Throws(method, args, k) ==
    /\ pc = "ready"
    /\ pc' = "returned"
    /\ call' = [method |-> method, args |-> args, k |-> k, threw |-> TRUE, value |-> <<>>]
    /\ UNCHANGED <<given, scores, weights, rankings, error, called, searchResults, metrics, formatArgs, formatted>>

\* fusion.borda()
Borda == Returns("borda", <<>>, 0, borda(rankings, weights))

\* fusion.dbsf()
Dbsf == Returns("dbsf", <<>>, 0, dbsf(scores, weights))

\* The default of the parameter with 1 for 60
rrfKDefaultOne(args) == IF Len(args) = 0 THEN 1 ELSE args[1]

\* k: number = 60: the value of the parameter k for an argument list
rrfK(args) == IF Len(args) = 0 THEN 60 ELSE args[1]

\* fusion.rrf(k) or fusion.rrf(): assert(k > 0) throws before anything is computed
Rrf ==
    \E args \in KArgs :
        LET k == rrfK(args)
        IN IF k > 0 THEN Returns("rrf", args, k, rrf(rankings, weights, k))
           ELSE Throws("rrf", args, k)

\* fusion.rsf()
Rsf == Returns("rsf", <<>>, 0, rsf(scores, weights))

\* The caller goes on with the same Fusion (app.ts calls borda, rrf, rsf and dbsf
\* on one Fusion, one after the other)
Continue ==
    /\ pc = "returned"
    /\ pc' = "ready"
    /\ call' = NoCall
    /\ called' = TRUE
    /\ UNCHANGED <<given, scores, weights, rankings, error, searchResults, metrics, formatArgs, formatted>>

\* ndcg(searchResults)
Ndcg ==
    /\ pc = "eval"
    /\ metrics' = ndcg(searchResults)
    /\ pc' = "evaluated"
    /\ UNCHANGED <<given, scores, weights, rankings, error, call, called, searchResults, formatArgs, formatted>>

\* formatFused(inArr, orig)
FormatFused ==
    /\ pc = "format"
    /\ formatted' = formatFused(formatArgs.inArr, formatArgs.orig)
    /\ pc' = "formatted"
    /\ UNCHANGED <<given, scores, weights, rankings, error, call, called, searchResults, metrics,
                   formatArgs>>

Next == NewFusion \/ Borda \/ Dbsf \/ Rrf \/ Rsf \/ Continue \/ Ndcg \/ FormatFused

Spec == Init /\ [][Next]_vars

(***************************************************************************)
(* Properties. The totals below restate the documented formulas from the   *)
(* caller's arguments (given); they do not use the score objects the       *)
(* methods build.                                                          *)
(***************************************************************************)
\* A fusion method has just returned an ordering
Returned(method) == pc = "returned" /\ call.method = method /\ ~call.threw

\* The ids of the first score array the caller passed
SharedIds == Range(IdsOf(given.scores[1]))

\* The raw score of id in the i-th score array the caller passed
GivenScore(i, id) ==
    given.scores[i][CHOOSE j \in 1..Len(given.scores[i]) : given.scores[i][j].id = id].score

GivenScoresOf(i) == {given.scores[i][j].score : j \in 1..Len(given.scores[i])}

MinOf(S) == CHOOSE x \in S : \A y \in S : x <= y
MaxOf(S) == CHOOSE x \in S : \A y \in S : x >= y

\* order lists its elements by non-increasing total
NonIncreasing(order, total(_)) ==
    \A a, b \in 1..Len(order) : a < b => total(order[a]) >= total(order[b])

\* this.rankings[i] lists the shared ids by non-increasing raw score
RankingsDescend ==
    \A i \in 1..Len(rankings) :
        /\ Range(rankings[i]) = SharedIds
        /\ Len(rankings[i]) = Cardinality(SharedIds)
        /\ \A a, b \in 1..Len(rankings[i]) :
              a < b => GivenScore(i, rankings[i][a]) >= GivenScore(i, rankings[i][b])

\* 0-indexed position of id in the ranking of signal i
Position(i, id) == IndexOf(rankings[i], id) - 1

\* C1: every ordering returned by borda, dbsf, rrf(k > 0) or rsf is a
\* permutation of the shared id set: as long as the set, every id in it.
C1_OutputIsPermutation ==
    (pc = "returned" /\ ~call.threw) =>
        /\ Len(call.value) = Cardinality(SharedIds)
        /\ Range(call.value) = SharedIds

C1_Witness ==
    /\ Returned("dbsf")
    /\ Len(given.scores) = 2
    /\ Len(call.value) = 3
    /\ given.weights = <<1, 2>>
    /\ call.value # IdsOf(given.scores[1])

\* A defect of the constructor's arguments: a weight too many or too few, or a
\* score array that does not hold each id of the first array exactly once and
\* nothing else
ListsExactly(list, idSet) ==
    /\ Len(list) = Cardinality(idSet)
    /\ Range(IdsOf(list)) = idSet

Defective(input) ==
    \/ Len(input.weights) # Len(input.scores)
    \/ \E i \in 1..Len(input.scores) :
          ~ListsExactly(input.scores[i], Range(IdsOf(input.scores[1])))

\* C2: new Fusion throws an assertion error, leaving no rankings and no fusion
\* output, whenever its arguments have a defect; it succeeds on arguments
\* without a defect that hold at least one score array.
C2_ValidationRejectsExactlyDefects ==
    pc \in {"ready", "returned", "threw"} =>
        IF Defective(given)
        THEN pc = "threw" /\ error = "AssertionError" /\ rankings = <<>> /\ call = NoCall
        ELSE Len(given.scores) >= 1 => pc # "threw" /\ error = "none"

C2_Witness ==
    /\ pc = "threw"
    /\ Len(given.scores) = 2
    /\ Len(given.weights) = 2
    /\ error = "AssertionError"
    /\ Range(IdsOf(given.scores[1])) = {"P1", "P2"}
    /\ Range(IdsOf(given.scores[2])) = {"P1"}
    /\ Len(given.scores[2]) = 2

\* Borda total of id: sum over signals of weight * (L - position)
BordaTotal(id) ==
    SumSeq([i \in 1..Len(given.scores) |->
               given.weights[i] * (Len(given.scores[i]) - Position(i, id))])

\* C3: borda() lists the ids by non-increasing Borda total, the positions taken
\* in rankings that list the ids by non-increasing raw score; on the reference
\* input it returns P1, P3, P4, P2, P5.
C3_BordaOrder ==
    Returned("borda") =>
        /\ RankingsDescend
        /\ NonIncreasing(call.value, BordaTotal)
        /\ given = ReferenceInput => call.value = <<"P1", "P3", "P4", "P2", "P5">>

C3_Witness ==
    /\ Returned("borda")
    /\ given = ReferenceInput
    /\ call.value = <<"P1", "P3", "P4", "P2", "P5">>

\* Reciprocal-rank total of id in unit 1/d, d the product of every j + k that
\* occurs: sum over signals of weight / (position + k)
RrfTotal(id) ==
    LET len == Cardinality(SharedIds)
        d == ProdSeq([j \in 1..len |-> (j - 1) + call.k])
    IN SumSeq([i \in 1..Len(given.scores) |->
                  given.weights[i] * (d \div (Position(i, id) + call.k))])

\* C4: rrf(k), k > 0, lists the ids by non-increasing reciprocal-rank total; on
\* the reference input with k = 60 it returns P3, P1, P4, P5, P2.
C4_RrfOrder ==
    Returned("rrf") =>
        /\ call.k > 0
        /\ RankingsDescend
        /\ NonIncreasing(call.value, RrfTotal)
        /\ (given = ReferenceInput /\ call.k = 60) =>
              call.value = <<"P3", "P1", "P4", "P5", "P2">>

C4_Witness ==
    /\ Returned("rrf")
    /\ call.k = 60
    /\ given = ReferenceInput
    /\ call.value = <<"P3", "P1", "P4", "P5", "P2">>

\* Every signal has two different raw scores (max > min, non-zero variance)
NoDegenerateSignal ==
    \A i \in 1..Len(given.scores) : Cardinality(GivenScoresOf(i)) >= 2

\* Relative-score total of id in unit 1/(product of the ranges):
\* sum over signals of weight * (score - min) / (max - min)
GivenRange(i) == MaxOf(GivenScoresOf(i)) - MinOf(GivenScoresOf(i))

RsfTotal(id) ==
    LET d == ProdSeq([i \in 1..Len(given.scores) |-> GivenRange(i)])
    IN SumSeq([i \in 1..Len(given.scores) |->
                  given.weights[i] * (GivenScore(i, id) - MinOf(GivenScoresOf(i)))
                      * (d \div GivenRange(i))])

\* C5: when every signal has max > min, rsf() lists the ids by non-increasing
\* relative-score total; on the reference input it returns P1, P3, P4, P2, P5.
C5_RsfOrder ==
    (Returned("rsf") /\ NoDegenerateSignal) =>
        /\ NonIncreasing(call.value, RsfTotal)
        /\ given = ReferenceInput => call.value = <<"P1", "P3", "P4", "P2", "P5">>

C5_Witness ==
    /\ Returned("rsf")
    /\ NoDegenerateSignal
    /\ Len(call.value) = 3
    /\ given.weights = <<2, 1>>
    /\ call.value # borda(rankings, weights)
    /\ \E a, b \in SharedIds : a # b /\ RsfTotal(a) = RsfTotal(b)

\* z-score total of id in unit 1/ZUnit: sum over signals of
\* weight * (score - mean) / std, mean and std those of the population:
\* (L * std)^2 = L * (sum of squares) - (sum)^2
GivenSum(i) == SumSeq([j \in 1..Len(given.scores[i]) |-> given.scores[i][j].score])

GivenSumSq(i) ==
    SumSeq([j \in 1..Len(given.scores[i]) |-> given.scores[i][j].score * given.scores[i][j].score])

ZScoreOf(i, id) ==
    LET len == Len(given.scores[i])
        v == len * GivenSumSq(i) - GivenSum(i) * GivenSum(i)
        q == SqrtScale(v)
    IN Quot((len * GivenScore(i, id) - GivenSum(i)) * q * ZUnit, ISqrt(v * q * q))

DbsfTotal(id) ==
    SumSeq([i \in 1..Len(given.scores) |-> given.weights[i] * ZScoreOf(i, id)])

\* C6: when every signal has non-zero variance, dbsf() lists the ids by
\* non-increasing z-score total; on the reference input it returns
\* P1, P3, P4, P2, P5.
C6_DbsfOrder ==
    (Returned("dbsf") /\ NoDegenerateSignal) =>
        /\ NonIncreasing(call.value, DbsfTotal)
        /\ given = ReferenceInput => call.value = <<"P1", "P3", "P4", "P2", "P5">>

C6_Witness ==
    /\ Returned("dbsf")
    /\ NoDegenerateSignal
    /\ Len(call.value) = 3
    /\ given.weights = <<1, 1>>
    /\ call.value # rsf(scores, weights)
    /\ call.value # borda(rankings, weights)

\* C7: every ndcg reported for a query with IDCG # 0 is a number in [0, 1]
\* (the case IDCG = 0 is left to C8).
C7_NdcgInUnitInterval ==
    pc = "evaluated" =>
        \A q \in 1..Len(metrics) :
            idcgOf(searchResults[q]) # 0 =>
                /\ metrics[q].ndcg.kind = "number"
                /\ metrics[q].ndcg.v >= 0
                /\ metrics[q].ndcg.v <= 10 ^ 4

\* The entries of a query are listed by non-increasing relevance L - rank + 1
ListedBestFirst(ranked) ==
    \A a, b \in 1..Len(ranked) : a < b => ranked[a].rank <= ranked[b].rank

\* C8: a query of one entry or more whose entries are listed by descending
\* relevance gets ndcg 1.0.
C8_IdealOrderScoresOne ==
    pc = "evaluated" =>
        \A q \in 1..Len(metrics) :
            (Len(searchResults[q].scores) >= 1 /\ ListedBestFirst(searchResults[q].scores)) =>
                metrics[q].ndcg = [kind |-> "number", v |-> 10 ^ 4]

\* C9: of two queries holding the same entries, the first best-relevance-first
\* and the second in the reverse order, the second gets no larger an ndcg
\* (when both are numbers).
C9_ReversalDoesNotGain ==
    (/\ pc = "evaluated"
     /\ Len(metrics) = 2
     /\ ListedBestFirst(searchResults[1].scores)
     /\ searchResults[2].scores = Reverse(searchResults[1].scores)
     /\ metrics[1].ndcg.kind = "number"
     /\ metrics[2].ndcg.kind = "number") =>
        metrics[2].ndcg.v <= metrics[1].ndcg.v

\* The score object the method just called sorted
FusedScores ==
    CASE call.method = "borda" -> bordaScores(rankings, weights)
      [] call.method = "dbsf" -> dbsfScores(scores, weights)
      [] call.method = "rrf" -> rrfScores(rankings, weights, call.k)
      [] call.method = "rsf" -> rsfScores(scores, weights)

\* a and b have equal scores in the score object (the sort's comparator yields
\* 0 or NaN)
Tied(obj, a, b) == NumSubSign(ObjGet(obj, a), ObjGet(obj, b)) = 0

\* a precedes b in the enumeration order of the keys of a score object filled
\* in the order of the first ranking
KeyOrder(a, b) ==
    \/ a \in ArrayIndexKeys /\ b \notin ArrayIndexKeys
    \/ a \in ArrayIndexKeys /\ b \in ArrayIndexKeys /\ ArrayIndexValue(a) < ArrayIndexValue(b)
    \/ a \notin ArrayIndexKeys /\ b \notin ArrayIndexKeys /\ Position(1, a) < Position(1, b)

Rescalings == {[square |-> FALSE, mul |-> 3, add |-> 1], [square |-> TRUE, mul |-> 1, add |-> 2]}

Rescaled(x, r) == (IF r.square THEN x * x ELSE x) * r.mul + r.add

\* The caller's arguments with the scores of signal i rescaled by rs[i]
RescaledInput(rs) ==
    [scores |-> [i \in 1..Len(given.scores) |->
                    [j \in 1..Len(given.scores[i]) |->
                        Score(given.scores[i][j].id, Rescaled(given.scores[i][j].score, rs[i]),
                              given.scores[i][j].rank)]],
     weights |-> given.weights]

\* What the method of the last call returns on a Fusion with these fields
FusedBy(made, weightsF) ==
    CASE call.method = "borda" -> borda(made.rankings, weightsF)
      [] call.method = "rrf" -> rrf(made.rankings, weightsF, call.k)
      [] call.method = "dbsf" -> dbsf(made.scores, weightsF)
      [] call.method = "rsf" -> rsf(made.scores, weightsF)

\* C11: borda() and rrf(k) return the same sequence on every input that has
\* the same ids, the same weights and the same order of scores in every signal
\* but other score magnitudes: such an input passes validation, gets the same
\* rankings and the same output.
C11_RankOnly ==
    (Returned("borda") \/ Returned("rrf")) =>
        \A rs \in [1..Len(given.scores) -> Rescalings] :
            LET twin == RescaledInput(rs)
                made == validateInput(twin.scores, twin.weights)
            IN (twin.scores # given.scores) =>
                  /\ ~made.threw
                  /\ made.rankings = rankings
                  /\ FusedBy(made, twin.weights) = call.value

C11_Witness ==
    /\ Returned("rrf")
    /\ call.k = 60
    /\ Len(given.scores) = 2
    /\ Len(call.value) = 3
    /\ \A i \in 1..2 : Cardinality(GivenScoresOf(i)) = 3
    /\ rankings[1] # rankings[2]
    /\ \A rs \in [1..2 -> Rescalings] :
          /\ RescaledInput(rs).scores[1] # given.scores[1]
          /\ validateInput(RescaledInput(rs).scores, weights).rankings = rankings

\* The positive constants c by which the weights are multiplied, and those by
\* which they are divided when every weight is a multiple
ScaleFactors == {2, 3}

ScaledWeights ==
    {[i \in 1..Len(given.weights) |-> c * given.weights[i]] : c \in ScaleFactors}
    \cup {[i \in 1..Len(given.weights) |-> given.weights[i] \div c] :
             c \in {d \in ScaleFactors : \A i \in 1..Len(given.weights) : given.weights[i] % d = 0}}

\* C12: rrf(k), k > 0, returns the same ordering when all the weights of the
\* input are multiplied by one positive constant.
C12_RrfWeightScaling ==
    Returned("rrf") =>
        \A scaled \in ScaledWeights :
            LET made == validateInput(given.scores, scaled)
            IN /\ ~made.threw
               /\ made.rankings = rankings
               /\ rrf(made.rankings, scaled, call.k) = call.value

C12_Witness ==
    /\ Returned("rrf")
    /\ call.k = 1
    /\ given.weights = <<1, 2>>
    /\ Len(call.value) = 3
    /\ call.value # rrf(rankings, <<1, 1>>, call.k)
    /\ call.value = rrf(rankings, <<3, 6>>, call.k)

\* Signal i is degenerate: it has entries and all their scores are identical
DegenerateSignal(i) == Cardinality(GivenScoresOf(i)) = 1

\* C13: when some signal has all its scores identical, dbsf() and rsf() return
\* without raising, and what they return is a permutation of the shared ids.
C13_DegenerateStillPermutes ==
    (/\ pc = "returned"
     /\ call.method \in {"dbsf", "rsf"}
     /\ \E i \in 1..Len(given.scores) : DegenerateSignal(i)) =>
        /\ ~call.threw
        /\ Len(call.value) = Cardinality(SharedIds)
        /\ \A id \in SharedIds : \E p \in 1..Len(call.value) : call.value[p] = id

C13_Witness ==
    /\ Returned("dbsf")
    /\ Len(given.scores) = 2
    /\ Len(call.value) = 3
    /\ DegenerateSignal(1)
    /\ ~DegenerateSignal(2)
    /\ \A id \in SharedIds : ObjGet(dbsfScores(scores, weights), id).nan

\* C14: new Fusion throws an assertion error on arguments that hold an empty
\* score array; no Fusion whose methods return an empty ordering comes to be.
C14_EmptyListRejected ==
    (/\ pc \in {"ready", "returned", "threw"}
     /\ \E i \in 1..Len(given.scores) : Len(given.scores[i]) = 0) =>
        /\ pc = "threw"
        /\ error = "AssertionError"

\* C15: rrf called with k <= 0 throws and returns no ordering; called with no
\* argument it returns the ordering by the reciprocal-rank totals with k = 60.
C15_RrfGuardAndDefault ==
    (pc = "returned" /\ call.method = "rrf") =>
        /\ (Len(call.args) = 1 /\ call.args[1] <= 0) => (call.threw /\ call.value = <<>>)
        /\ (Len(call.args) = 1 /\ call.args[1] > 0) => (~call.threw /\ call.k = call.args[1])
        /\ Len(call.args) = 0 =>
              /\ ~call.threw
              /\ call.k = 60
              /\ Len(call.value) = Cardinality(SharedIds)
              /\ NonIncreasing(call.value, RrfTotal)

C15_Witness ==
    /\ pc = "returned"
    /\ call.method = "rrf"
    /\ call.args = <<-1>>
    /\ call.threw
    /\ Len(rankings) = 2
    /\ Len(rankings[1]) = 3

\* The ids of the reference list, and the rank the reference list carries for id
ReferenceIds == {formatArgs.orig[m].id : m \in 1..Len(formatArgs.orig)}

RankOf(id) == (CHOOSE e \in Range(formatArgs.orig) : e.id = id).rank

\* C16: for a fused ordering of N ids that all occur in the reference list,
\* formatFused returns N records in the fused order; the record at 0-indexed
\* position i has the fused id at i, score N - i and the rank the reference
\* list carries for that id.
C16_FormatFusedRecords ==
    (pc = "formatted" /\ Range(formatArgs.inArr) \subseteq ReferenceIds) =>
        /\ Len(formatted) = Len(formatArgs.inArr)
        /\ \A p \in 1..Len(formatted) :
              formatted[p] = [hole |-> FALSE, id |-> formatArgs.inArr[p],
                              score |-> Len(formatArgs.inArr) - (p - 1),
                              rank |-> RankOf(formatArgs.inArr[p])]

C16_Witness ==
    /\ pc = "formatted"
    /\ formatArgs.inArr = <<"P2", "P1">>
    /\ IdsOf(formatArgs.orig) = <<"P1", "P2">>
    /\ formatArgs.orig[1].rank = 2
    /\ formatArgs.orig[2].rank = 0
    /\ Len(formatted) = 2
    /\ formatted[1].rank = 0
    /\ formatted[1].score = 2

\* C17: after new Fusion, whether it threw or not, and after every call of a
\* fusion method, each score array the caller passed holds the entries it held
\* before, in the same order.
C17_CallerArraysUntouched ==
    pc \in {"ready", "returned", "threw"} => scores = given.scores

\* The signals that are not degenerate, and the totals of an id over them alone
SoundSignals == {i \in 1..Len(given.scores) : Cardinality(GivenScoresOf(i)) >= 2}

RsfSoundTotal(id) ==
    LET range(i) == IF i \in SoundSignals THEN GivenRange(i) ELSE 1
        d == ProdSeq([i \in 1..Len(given.scores) |-> range(i)])
    IN SumSeq([i \in 1..Len(given.scores) |->
                  IF i \in SoundSignals
                  THEN given.weights[i] * (GivenScore(i, id) - MinOf(GivenScoresOf(i)))
                           * (d \div range(i))
                  ELSE 0])

DbsfSoundTotal(id) ==
    SumSeq([i \in 1..Len(given.scores) |->
               IF i \in SoundSignals THEN given.weights[i] * ZScoreOf(i, id) ELSE 0])

\* C18: when some signal has all its scores identical and another has not, the
\* totals dbsf() and rsf() accumulate are numbers (no NaN), and the ordering
\* returned is the descending order of the totals over the other signals, the
\* degenerate signal counting 0 for every id.
C18_DegenerateCountsZero ==
    (/\ pc = "returned"
     /\ call.method \in {"dbsf", "rsf"}
     /\ \E i \in 1..Len(given.scores) : DegenerateSignal(i)
     /\ SoundSignals # {}) =>
        /\ \A id \in SharedIds : ~ObjGet(FusedScores, id).nan
        /\ call.method = "dbsf" => NonIncreasing(call.value, DbsfSoundTotal)
        /\ call.method = "rsf" => NonIncreasing(call.value, RsfSoundTotal)

\* The fused ids that occur in the reference list, in fused order
MatchedIds ==
    LET listed(id) == id \in ReferenceIds
    IN SelectSeq(formatArgs.inArr, listed)

\* C19: when the fused ordering holds an id the reference list lacks,
\* formatFused returns one record per matched id, in fused order: the length
\* of the result is the number of matched ids and no slot of it is empty.
C19_UnmatchedDropped ==
    (pc = "formatted" /\ ~(Range(formatArgs.inArr) \subseteq ReferenceIds)) =>
        /\ Len(formatted) = Len(MatchedIds)
        /\ \A p \in 1..Len(formatted) :
              /\ ~formatted[p].hole
              /\ formatted[p].id = MatchedIds[p]
              /\ formatted[p].rank = RankOf(MatchedIds[p])

\* C20: on a constructed Fusion, before and after every call of borda(), dbsf(),
\* rrf(k) and rsf(), the first and the later ones alike, scores, weights and
\* rankings are what the constructor left, and what a call returned is what
\* that method yields as the first call on the Fusion.
C20_CallsLeaveFusionUnchanged ==
    pc \in {"ready", "returned"} =>
        LET made == validateInput(given.scores, given.weights)
        IN /\ ~made.threw
           /\ scores = made.scores
           /\ weights = given.weights
           /\ rankings = made.rankings
           /\ pc = "returned" =>
                 /\ call.threw <=> (call.method = "rrf" /\ call.k <= 0)
                 /\ ~call.threw => call.value = FusedBy(made, given.weights)

C20_Witness ==
    /\ pc = "returned"
    /\ called
    /\ call.method = "rsf"
    /\ ~call.threw
    /\ Len(given.scores) = 2
    /\ Len(call.value) = 3
    /\ scores # given.scores

=============================================================================
